---- MODULE Spec2Model ----
(***************************************************************************)
(* Rules engine for card-not-present decisions (decision_engine.py) and    *)
(* its two callers: the HTTP handler of app.py and the batch runner run(). *)
(*                                                                         *)
(* A transaction row is a function from the field names it carries to      *)
(* their values (a pandas Series / a JSON body): an absent field is a name *)
(* outside its DOMAIN.  Python's None is the value None below.  Strings    *)
(* are TLA+ strings; reasons are built with the exact text of the code.    *)
(***************************************************************************)
EXTENDS Integers, Sequences, FiniteSets, TLC

VARIABLES
    cfg,        \* the shared configuration object every call reads
    row,        \* engine: the row handed to assess_row
    frame,      \* engine: the call's local variables (score, reasons, rep)
    pc,         \* engine: position of the call
    result,     \* engine: what assess_row returned (NoResult before the return)
    body,       \* HTTP: the JSON body of POST /transaction
    response,   \* HTTP: the response sent (NoResponse before)
    engine_in,  \* HTTP: the sequence of rows the handler passed to the engine
    df,         \* batch: the input table read from the CSV
    results,    \* batch: the list `results` of run()
    out,        \* batch: the output table (NoTable until written)
    rpc,        \* batch: position of run()
    calls,      \* concurrency: each caller's row and position
    frames,     \* concurrency: the local variables of each running call
    returned    \* concurrency: the value each caller got back

vars == <<cfg, row, frame, pc, result, body, response, engine_in,
          df, results, out, rpc, calls, frames, returned>>

engineVars == <<row, frame, pc, result>>
httpVars == <<body, response, engine_in>>
batchVars == <<df, results, out, rpc>>
concVars == <<calls, frames, returned>>

----------------------------------------------------------------------------
(* Bounds of the model *)

MaxChargebacks == 2
MaxRows == 3
NCalls == 2

----------------------------------------------------------------------------
(* Program constants *)

DECISION_ACCEPTED == "ACCEPTED"
DECISION_IN_REVIEW == "IN_REVIEW"
DECISION_REJECTED == "REJECTED"

DEFAULT_CONFIG ==
    [ amount_thresholds |->
          ("digital" :> 2500) @@ ("physical" :> 6000) @@
          ("subscription" :> 1500) @@ ("_default" :> 4000),
      latency_ms_extreme |-> 2500,
      chargeback_hard_block |-> 2,
      score_weights |->
          [ ip_risk |-> ("low" :> 0) @@ ("medium" :> 2) @@ ("high" :> 4),
            email_risk |-> ("low" :> 0) @@ ("medium" :> 1) @@ ("high" :> 3)
                           @@ ("new_domain" :> 2),
            device_fingerprint_risk |->
                ("low" :> 0) @@ ("medium" :> 2) @@ ("high" :> 4),
            user_reputation |-> ("trusted" :> -2) @@ ("recurrent" :> -1)
                                @@ ("new" :> 0) @@ ("high_risk" :> 4),
            night_hour |-> 1,
            geo_mismatch |-> 2,
            high_amount |-> 2,
            latency_extreme |-> 2,
            new_user_high_amount |-> 2 ],
      score_to_decision |-> [ reject_at |-> 8, review_at |-> 4 ] ]

----------------------------------------------------------------------------
(* Python values and conversions *)

\* Python's None (a JSON null in a body)
None == "<None>"

\* str(v) for the values a string field can hold
Str(v) == IF v = None THEN "None" ELSE v

\* str.lower() on the strings of the model
Lower(s) ==
    CASE s = "HIGH" -> "high"
      [] s = "High" -> "high"
      [] s = "NEW" -> "new"
      [] s = "Trusted" -> "trusted"
      [] s = "Subscription" -> "subscription"
      [] s = "DIGITAL" -> "digital"
      [] s = "None" -> "none"
      [] OTHER -> s

\* str.upper() on the strings of the model
Upper(s) ==
    CASE s = "mx" -> "MX"
      [] s = "us" -> "US"
      [] s = "None" -> "NONE"
      [] OTHER -> s

\* str(float(a)) for a whole amount: 5200 -> "5200.0"
FloatStr(a) == ToString(a) \o ".0"

\* row.get(field, default)
Get(r, field, default) == IF field \in DOMAIN r THEN r[field] ELSE default

\* mapping.get(key, default)
DictGet(mapping, key, default) ==
    IF key \in DOMAIN mapping THEN mapping[key] ELSE default

\* ";".join(texts)
RECURSIVE Join(_)
Join(texts) ==
    IF Len(texts) = 0 THEN ""
    ELSE IF Len(texts) = 1 THEN texts[1]
    ELSE texts[1] \o ";" \o Join(Tail(texts))

----------------------------------------------------------------------------
(* decision_engine.py: the rules.  A frame holds the local variables of    *)
(* one call: score, reasons (each entry tagged with the rule that wrote    *)
(* it, next to its exact text) and rep.                                    *)

\* score = 0; reasons = []
NewFrame == [score |-> 0, reasons |-> <<>>, rep |-> ""]

Reason(rule, text) == [rule |-> rule, text |-> text]

Plus(n) == "(+" \o ToString(n) \o ")"

is_night(hour) == hour >= 22 \/ hour <= 5

high_amount(amount, product_type, thresholds) ==
    LET t == DictGet(thresholds, product_type, thresholds["_default"])
    IN  amount >= t

\* 1) the hard-block condition, ip_risk compared as written
HardBlockCaseSensitive(r, c) ==
    /\ Get(r, "chargeback_count", 0) >= c.chargeback_hard_block
    /\ Str(Get(r, "ip_risk", "low")) = "high"

\* 1) the hard-block condition
HardBlock(r, c) ==
    /\ Get(r, "chargeback_count", 0) >= c.chargeback_hard_block
    /\ Lower(Str(Get(r, "ip_risk", "low"))) = "high"

Texts(reasons) == [i \in 1..Len(reasons) |-> reasons[i].text]

\* line 82: the hard block records its reason in the call's reasons
HardBlockFrame(fr) ==
    [fr EXCEPT
       !.reasons = Append(@, Reason("hard_block",
                                    "hard_block:chargebacks>=2+ip_high"))]

\* line 83: the return of the hard block, fr the locals after line 82
HardBlockResult(fr) ==
    [decision |-> DECISION_REJECTED, risk_score |-> 100,
     reasons |-> Join(Texts(fr.reasons))]

\* 2) one iteration of the loop over the categorical risk fields
CategoricalStep(fr, r, c, field) ==
    LET val == Lower(Str(Get(r, field, "low")))
        add == DictGet(c.score_weights[field], val, 0)
    IN  [fr EXCEPT
           !.score = @ + add,
           !.reasons = IF add # 0
                       THEN Append(@, Reason(field, field \o ":" \o val \o Plus(add)))
                       ELSE @]

CategoricalRisks(fr, r, c) ==
    CategoricalStep(
        CategoricalStep(CategoricalStep(fr, r, c, "ip_risk"), r, c, "email_risk"),
        r, c, "device_fingerprint_risk")

\* 3) reputation
ReputationStep(fr, r, c) ==
    LET rep == Lower(Str(Get(r, "user_reputation", "new")))
        rep_add == DictGet(c.score_weights.user_reputation, rep, 0)
        sign == IF rep_add >= 0 THEN "+" ELSE ""
    IN  [fr EXCEPT
           !.rep = rep,
           !.score = @ + rep_add,
           !.reasons = IF rep_add # 0
                       THEN Append(@, Reason("user_reputation",
                                "user_reputation:" \o rep \o "(" \o sign
                                \o ToString(rep_add) \o ")"))
                       ELSE @]

\* 4) night hour
NightStep(fr, r, c) ==
    LET hr == Get(r, "hour", 12)
        add == c.score_weights.night_hour
    IN  IF is_night(hr)
        THEN [fr EXCEPT
                !.score = @ + add,
                !.reasons = Append(@, Reason("night_hour",
                                "night_hour:" \o ToString(hr) \o Plus(add)))]
        ELSE fr

\* 5) geo / IP-BIN mismatch
GeoStep(fr, r, c) ==
    LET bin_c == Upper(Str(Get(r, "bin_country", "")))
        ip_c == Upper(Str(Get(r, "ip_country", "")))
        add == c.score_weights.geo_mismatch
    IN  IF bin_c # "" /\ ip_c # "" /\ bin_c # ip_c
        THEN [fr EXCEPT
                !.score = @ + add,
                !.reasons = Append(@, Reason("geo_mismatch",
                                "geo_mismatch:" \o bin_c \o "!=" \o ip_c \o Plus(add)))]
        ELSE fr

\* 6) as below, the new-user rule moved out of the high-amount branch
AmountStepUnnested(fr, r, c) ==
    LET amount == Get(r, "amount_mxn", 0)
        ptype == Lower(Str(Get(r, "product_type", "_default")))
        add == c.score_weights.high_amount
        add2 == c.score_weights.new_user_high_amount
        f1 == IF high_amount(amount, ptype, c.amount_thresholds)
              THEN [fr EXCEPT
                      !.score = @ + add,
                      !.reasons = Append(@, Reason("high_amount",
                          "high_amount:" \o ptype \o ":" \o FloatStr(amount) \o Plus(add)))]
              ELSE fr
    IN  IF fr.rep = "new"
        THEN [f1 EXCEPT
                !.score = @ + add2,
                !.reasons = Append(@, Reason("new_user_high_amount",
                                "new_user_high_amount" \o Plus(add2)))]
        ELSE f1

\* 6) high amount for the product type, with the nested new-user rule
AmountStep(fr, r, c) ==
    LET amount == Get(r, "amount_mxn", 0)
        ptype == Lower(Str(Get(r, "product_type", "_default")))
        add == c.score_weights.high_amount
        add2 == c.score_weights.new_user_high_amount
    IN  IF high_amount(amount, ptype, c.amount_thresholds)
        THEN LET f1 == [fr EXCEPT
                          !.score = @ + add,
                          !.reasons = Append(@, Reason("high_amount",
                              "high_amount:" \o ptype \o ":" \o FloatStr(amount)
                              \o Plus(add)))]
             IN  IF fr.rep = "new"
                 THEN [f1 EXCEPT
                         !.score = @ + add2,
                         !.reasons = Append(@, Reason("new_user_high_amount",
                                         "new_user_high_amount" \o Plus(add2)))]
                 ELSE f1
        ELSE fr

\* 7) extreme latency
LatencyStep(fr, r, c) ==
    LET lat == Get(r, "latency_ms", 0)
        add == c.score_weights.latency_extreme
    IN  IF lat >= c.latency_ms_extreme
        THEN [fr EXCEPT
                !.score = @ + add,
                !.reasons = Append(@, Reason("latency_extreme",
                                "latency_extreme:" \o ToString(lat) \o "ms" \o Plus(add)))]
        ELSE fr

\* 8) as below, without the test that the score is positive
FrequencyStepUnguarded(fr, r, c) ==
    LET freq == Get(r, "customer_txn_30d", 0)
    IN  IF fr.rep \in {"recurrent", "trusted"} /\ freq >= 3
        THEN [fr EXCEPT
                !.score = @ - 1,
                !.reasons = Append(@, Reason("frequency_buffer", "frequency_buffer(-1)"))]
        ELSE fr

\* 8) frequency buffer
FrequencyStep(fr, r, c) ==
    LET freq == Get(r, "customer_txn_30d", 0)
    IN  IF fr.rep \in {"recurrent", "trusted"} /\ freq >= 3 /\ fr.score > 0
        THEN [fr EXCEPT
                !.score = @ - 1,
                !.reasons = Append(@, Reason("frequency_buffer", "frequency_buffer(-1)"))]
        ELSE fr

\* 9) as below, with > for >=
DecisionStrict(score, c) ==
    IF score > c.score_to_decision.reject_at THEN DECISION_REJECTED
    ELSE IF score > c.score_to_decision.review_at THEN DECISION_IN_REVIEW
    ELSE DECISION_ACCEPTED

\* 9) score to decision
Decision(score, c) ==
    IF score >= c.score_to_decision.reject_at THEN DECISION_REJECTED
    ELSE IF score >= c.score_to_decision.review_at THEN DECISION_IN_REVIEW
    ELSE DECISION_ACCEPTED

\* the return statement of the scored path
ScoredResult(fr, c) ==
    [decision |-> Decision(fr.score, c), risk_score |-> fr.score,
     reasons |-> Join(Texts(fr.reasons))]

\* the frame after rules 2..7, i.e. when the frequency buffer is reached
BeforeBuffer(r, c) ==
    LatencyStep(
      AmountStep(
        GeoStep(
          NightStep(
            ReputationStep(CategoricalRisks(NewFrame, r, c), r, c),
            r, c),
          r, c),
        r, c),
      r, c)

\* the frame when the decision is mapped
FinalFrame(r, c) == FrequencyStep(BeforeBuffer(r, c), r, c)

assess_row(r, c) ==
    IF HardBlock(r, c) THEN HardBlockResult(HardBlockFrame(NewFrame))
    ELSE ScoredResult(FinalFrame(r, c), c)

----------------------------------------------------------------------------
(* Inputs *)

ScoredFields ==
    {"chargeback_count", "ip_risk", "email_risk", "device_fingerprint_risk",
     "user_reputation", "hour", "bin_country", "ip_country", "amount_mxn",
     "product_type", "latency_ms", "customer_txn_30d"}

\* the rows with every scored field present
FullRows ==
    [ chargeback_count : 0..MaxChargebacks,
      ip_risk : {"low", "medium", "high", "HIGH"},
      email_risk : {"low", "new_domain"},
      device_fingerprint_risk : {"low", "high"},
      user_reputation : {"new", "NEW", "trusted", "recurrent", "high_risk"},
      hour : {10, 23},
      bin_country : {"MX", "mx", "US", ""},
      ip_country : {"MX", "US"},
      amount_mxn : {250, 2500, 5200},
      product_type : {"digital", "Subscription", "gift_card"},
      latency_ms : {120, 2500},
      customer_txn_30d : {0, 3} ]

\* which fields a row may lack: none, any one, or all of them
AbsentSets == {{}} \cup {{f} : f \in ScoredFields} \cup {ScoredFields}

Restrict(r, fields) == [f \in fields |-> r[f]]

NoResult == [decision |-> "", risk_score |-> 0, reasons |-> ""]

idleEngine ==
    /\ row = <<>>
    /\ frame = NewFrame
    /\ pc = "idle"
    /\ result = NoResult

idleHttp ==
    /\ body = <<>>
    /\ response = <<>>
    /\ engine_in = <<>>

idleBatch ==
    /\ df = <<>>
    /\ results = <<>>
    /\ out = <<>>
    /\ rpc = "idle"

idleConc ==
    /\ calls = <<>>
    /\ frames = <<>>
    /\ returned = <<>>

----------------------------------------------------------------------------
(* Spec: one call of assess_row(row, cfg) on an arbitrary row *)

Init ==
    /\ cfg = DEFAULT_CONFIG
    /\ \E full \in FullRows, absent \in AbsentSets :
           row = Restrict(full, ScoredFields \ absent)
    /\ frame = NewFrame
    /\ pc = "hard_block"
    /\ result = NoResult
    /\ idleHttp /\ idleBatch /\ idleConc

\* lines 80-83: the hard block returns at once
HardBlockReturn ==
    /\ pc = "hard_block"
    /\ HardBlock(row, cfg)
    /\ frame' = HardBlockFrame(frame)
    /\ result' = HardBlockResult(frame')
    /\ pc' = "done"
    /\ UNCHANGED <<cfg, row, httpVars, batchVars, concVars>>

\* lines 85-135: rules 2 to 7 add to the score and to the reasons
ScoreRules ==
    /\ pc = "hard_block"
    /\ ~HardBlock(row, cfg)
    /\ frame' = BeforeBuffer(row, cfg)
    /\ pc' = "frequency"
    /\ UNCHANGED <<cfg, row, result, httpVars, batchVars, concVars>>

\* lines 137-141: the frequency buffer
FrequencyBuffer ==
    /\ pc = "frequency"
    /\ frame' = FrequencyStep(frame, row, cfg)
    /\ pc' = "decision"
    /\ UNCHANGED <<cfg, row, result, httpVars, batchVars, concVars>>

\* lines 143-151: the decision is mapped and the result returned
MapDecision ==
    /\ pc = "decision"
    /\ result' = ScoredResult(frame, cfg)
    /\ pc' = "done"
    /\ UNCHANGED <<cfg, row, frame, httpVars, batchVars, concVars>>

Next == HardBlockReturn \/ ScoreRules \/ FrequencyBuffer \/ MapDecision

Spec == Init /\ [][Next]_vars

----------------------------------------------------------------------------
(* SpecHttp: app.py, POST /transaction *)

RiskStr == {"low", "medium", "high", "new_domain"}
Reputation == {"trusted", "recurrent", "new", "high_risk"}
ProductType == {"digital", "physical", "subscription"}

\* the Literal type of each enum field of class Transaction
FieldType(f) ==
    CASE f = "product_type" -> ProductType
      [] f = "user_reputation" -> Reputation
      [] f \in {"device_fingerprint_risk", "ip_risk", "email_risk"} -> RiskStr

EnumFields ==
    {"product_type", "user_reputation", "device_fingerprint_risk", "ip_risk",
     "email_risk"}

\* the field defaults of class Transaction
TransactionDefaults ==
    [ transaction_id |-> None,
      amount_mxn |-> 0,
      customer_txn_30d |-> 0,
      geo_state |-> None,
      device_type |-> None,
      chargeback_count |-> 0,
      hour |-> 12,
      product_type |-> "digital",
      latency_ms |-> 0,
      user_reputation |-> "new",
      device_fingerprint_risk |-> "low",
      ip_risk |-> "low",
      email_risk |-> "low",
      bin_country |-> "MX",
      ip_country |-> "MX" ]

\* pydantic's validation of the body against class Transaction
Validates(b) == \A f \in EnumFields \cap DOMAIN b : b[f] \in FieldType(f)

\* txn.model_dump(): every field of the model, absent ones at their default
model_dump(b) ==
    [f \in DOMAIN TransactionDefaults |->
        IF f \in DOMAIN b THEN b[f] ELSE TransactionDefaults[f]]

\* the JSON bodies posted, every scored field present
FullBodies ==
    [ chargeback_count : {0, 2},
      ip_risk : {"low", "high", "HIGH", "new_domain"},
      email_risk : {"low", "new_domain", "unknown"},
      device_fingerprint_risk : {"low", "medium"},
      user_reputation : {"new", "trusted", "vip"},
      hour : {12},
      bin_country : {"MX", "mx", "US", None},
      ip_country : {"MX", None},
      amount_mxn : {250, 5200},
      product_type : {"digital", "gift_card"},
      latency_ms : {120},
      customer_txn_30d : {3} ]

NoResponse == [status |-> 0, decision |-> "", risk_score |-> 0, reasons |-> ""]

InitHttp ==
    /\ cfg = DEFAULT_CONFIG
    /\ \E full \in FullBodies, absent \in AbsentSets :
           body = Restrict(full, ScoredFields \ absent)
    /\ response = NoResponse
    /\ engine_in = <<>>
    /\ idleEngine /\ idleBatch /\ idleConc

\* the request fails the schema: FastAPI answers 422 and the handler is not run
RejectInvalid ==
    /\ response = NoResponse
    /\ ~Validates(body)
    /\ response' = [NoResponse EXCEPT !.status = 422]
    /\ UNCHANGED <<cfg, body, engine_in, engineVars, batchVars, concVars>>

\* lines 53-63: the handler scores the validated model
evaluate_transaction ==
    /\ response = NoResponse
    /\ Validates(body)
    /\ LET r == model_dump(body)
           res == assess_row(r, cfg)
       IN  /\ engine_in' = Append(engine_in, r)
           /\ response' = [status |-> 200, decision |-> res.decision,
                           risk_score |-> res.risk_score, reasons |-> res.reasons]
    /\ UNCHANGED <<cfg, body, engineVars, batchVars, concVars>>

NextHttp == RejectInvalid \/ evaluate_transaction

SpecHttp == InitHttp /\ [][NextHttp]_vars

----------------------------------------------------------------------------
(* SpecRun: decision_engine.run over a table read from the input CSV *)

\* a table with every column the single-row test writes is out of reach of
\* exhaustive search; the tables below have three columns, all other columns
\* of the CSV missing
RunRowsA ==
    [ amount_mxn : {3000, 5200},
      product_type : {"digital", "physical"},
      user_reputation : {"new", "trusted"} ]

RunRowsB ==
    [ amount_mxn : {3000, 5200},
      user_reputation : {"new", "trusted"},
      ip_country : {"MX", "US"} ]

Tables ==
    UNION {[1..n -> RunRowsA] \cup [1..n -> RunRowsB] : n \in 0..MaxRows}

InitRun ==
    /\ cfg = DEFAULT_CONFIG
    /\ df \in Tables
    /\ results = <<>>
    /\ out = <<>>
    /\ rpc = "loop"
    /\ idleEngine /\ idleHttp /\ idleConc

\* results.append(res), prepending instead
RunPrepend(rs, res) == <<res>> \o rs

\* results.append(res)
RunAppend(rs, res) == Append(rs, res)

\* lines 157-159: one iteration of the loop over df.iterrows()
RunRow ==
    /\ rpc = "loop"
    /\ Len(results) < Len(df)
    /\ results' = RunAppend(results, assess_row(df[Len(results) + 1], cfg))
    /\ UNCHANGED <<cfg, df, out, rpc, engineVars, httpVars, concVars>>

\* lines 160-165: the three columns are added to a copy of df
RunWrite ==
    /\ rpc = "loop"
    /\ Len(results) = Len(df)
    /\ out' = [i \in 1..Len(df) |->
                  [decision |-> results[i].decision,
                   risk_score |-> results[i].risk_score,
                   reasons |-> results[i].reasons] @@ df[i]]
    /\ rpc' = "done"
    /\ UNCHANGED <<cfg, df, results, engineVars, httpVars, concVars>>

NextRun == RunRow \/ RunWrite

SpecRun == InitRun /\ [][NextRun]_vars

----------------------------------------------------------------------------
(* SpecConc: NCalls calls of assess_row interleaved rule by rule, all       *)
(* reading the one cfg                                                     *)

Procs == 1..NCalls

ConcRows ==
    [ chargeback_count : {2},
      ip_risk : {"low", "medium", "high"},
      user_reputation : {"trusted", "new"},
      customer_txn_30d : {3},
      amount_mxn : {5200} ]

\* every call's locals in one shared cell
SharedFrame(p) == 1

\* score and reasons are locals: each call has its own
Frame(p) == p

InitConc ==
    /\ cfg = DEFAULT_CONFIG
    /\ calls \in [Procs -> [pc : {"enter"}, row : ConcRows]]
    /\ frames = [p \in Procs |-> NewFrame]
    /\ returned = [p \in Procs |-> NoResult]
    /\ idleEngine /\ idleHttp /\ idleBatch

CUnchanged == UNCHANGED <<cfg, engineVars, httpVars, batchVars>>

\* a step of call p that rewrites its locals and moves on
CRule(p, at, fr, next) ==
    /\ calls[p].pc = at
    /\ frames' = [frames EXCEPT ![Frame(p)] = fr]
    /\ calls' = [calls EXCEPT ![p].pc = next]
    /\ UNCHANGED returned
    /\ CUnchanged

CEnter(p) == CRule(p, "enter", NewFrame, "hard_block")

CHardBlock(p) ==
    /\ calls[p].pc = "hard_block"
    /\ IF HardBlock(calls[p].row, cfg)
       THEN /\ frames' = [frames EXCEPT ![Frame(p)] = HardBlockFrame(@)]
            /\ returned' = [returned EXCEPT
                                ![p] = HardBlockResult(frames'[Frame(p)])]
            /\ calls' = [calls EXCEPT ![p].pc = "done"]
       ELSE /\ calls' = [calls EXCEPT ![p].pc = "categorical"]
            /\ UNCHANGED <<frames, returned>>
    /\ CUnchanged

CCategorical(p) ==
    CRule(p, "categorical",
          CategoricalRisks(frames[Frame(p)], calls[p].row, cfg), "reputation")

CReputation(p) ==
    CRule(p, "reputation",
          ReputationStep(frames[Frame(p)], calls[p].row, cfg), "night")

CNight(p) ==
    CRule(p, "night", NightStep(frames[Frame(p)], calls[p].row, cfg), "geo")

CGeo(p) ==
    CRule(p, "geo", GeoStep(frames[Frame(p)], calls[p].row, cfg), "amount")

CAmount(p) ==
    CRule(p, "amount", AmountStep(frames[Frame(p)], calls[p].row, cfg), "latency")

CLatency(p) ==
    CRule(p, "latency",
          LatencyStep(frames[Frame(p)], calls[p].row, cfg), "frequency")

CFrequency(p) ==
    CRule(p, "frequency",
          FrequencyStep(frames[Frame(p)], calls[p].row, cfg), "decision")

CReturn(p) ==
    /\ calls[p].pc = "decision"
    /\ returned' = [returned EXCEPT ![p] = ScoredResult(frames[Frame(p)], cfg)]
    /\ calls' = [calls EXCEPT ![p].pc = "done"]
    /\ UNCHANGED frames
    /\ CUnchanged

NextConc ==
    \E p \in Procs :
        \/ CEnter(p) \/ CHardBlock(p) \/ CCategorical(p) \/ CReputation(p)
        \/ CNight(p) \/ CGeo(p) \/ CAmount(p) \/ CLatency(p)
        \/ CFrequency(p) \/ CReturn(p)

SpecConc == InitConc /\ [][NextConc]_vars

----------------------------------------------------------------------------
(* Properties *)

HasRule(fr, rule) == \E i \in 1..Len(fr.reasons) : fr.reasons[i].rule = rule

CountRule(fr, rule) ==
    Cardinality({i \in 1..Len(fr.reasons) : fr.reasons[i].rule = rule})

\* the hard-block condition in the words of the specification
TriggersHardBlock(r) ==
    /\ Get(r, "chargeback_count", 0) >= DEFAULT_CONFIG.chargeback_hard_block
    /\ Get(r, "ip_risk", "low") \in {"high", "HIGH", "High"}

\* C1: hard-block precedence.  A transaction with chargeback_count >= the
\* configured chargeback_hard_block and ip_risk "high" in any letter case is
\* returned REJECTED with risk_score 100 and the single reason
\* "hard_block:chargebacks>=2+ip_high", whatever its other fields; no other
\* rule runs for it: the call's score stays 0 and its reasons hold nothing
\* but the hard-block entry.
HardBlockPrecedence ==
    TriggersHardBlock(row) =>
        /\ pc \in {"hard_block", "done"}
        /\ frame.score = 0
        /\ pc = "hard_block" => frame.reasons = <<>>
        /\ pc = "done" =>
               /\ frame.reasons =
                      <<[rule |-> "hard_block",
                         text |-> "hard_block:chargebacks>=2+ip_high"]>>
               /\ result = [decision |-> "REJECTED", risk_score |-> 100,
                            reasons |-> "hard_block:chargebacks>=2+ip_high"]

\* a hard-blocked call has returned for a row whose other fields are all risky
\* and whose ip_risk is written in capitals
HardBlockReached ==
    /\ pc = "done"
    /\ DOMAIN row = ScoredFields
    /\ row.chargeback_count >= 2
    /\ row.ip_risk = "HIGH"
    /\ row.user_reputation = "high_risk"
    /\ row.amount_mxn = 5200
    /\ row.latency_ms = 2500
    /\ row.bin_country = "US" /\ row.ip_country = "MX"
    /\ result.risk_score = 100
    /\ HasRule(frame, "hard_block")

\* C2: decision mapping.  For a transaction that does not trigger the hard
\* block the returned risk_score is the final running score, and the decision
\* is REJECTED exactly when risk_score >= reject_at, IN_REVIEW exactly when
\* review_at <= risk_score < reject_at, ACCEPTED exactly when
\* risk_score < review_at.
DecisionMapping ==
    (pc = "done" /\ ~TriggersHardBlock(row)) =>
        LET reject_at == cfg.score_to_decision.reject_at
            review_at == cfg.score_to_decision.review_at
        IN  /\ result.risk_score = frame.score
            /\ result.decision = "REJECTED" <=> result.risk_score >= reject_at
            /\ result.decision = "IN_REVIEW" <=>
                   (review_at <= result.risk_score /\ result.risk_score < reject_at)
            /\ result.decision = "ACCEPTED" <=> result.risk_score < review_at

\* a call returned REJECTED with a score of exactly reject_at, reached after
\* the frequency buffer took one point off
RejectedAtThreshold ==
    /\ pc = "done"
    /\ ~TriggersHardBlock(row)
    /\ HasRule(frame, "frequency_buffer")
    /\ result.risk_score = cfg.score_to_decision.reject_at
    /\ result.decision = "REJECTED"

\* scenario B of the specification, every field it leaves open benign
IsScenarioB(r) ==
    /\ DOMAIN r = ScoredFields
    /\ r.amount_mxn = 5200
    /\ r.product_type = "digital"
    /\ r.user_reputation = "new"
    /\ r.ip_risk = "medium"
    /\ r.email_risk = "new_domain"
    /\ r.hour = 23
    /\ r.chargeback_count = 0
    /\ r.device_fingerprint_risk = "low"
    /\ r.latency_ms < DEFAULT_CONFIG.latency_ms_extreme
    /\ r.bin_country = r.ip_country

\* C3: scenario B.  Under the default configuration the transaction of
\* scenario B is scored IN_REVIEW with 4 <= risk_score < reject_at and its
\* reasons hold a high_amount entry.
ScenarioBInReview ==
    (pc = "done" /\ IsScenarioB(row)) =>
        /\ result.decision = "IN_REVIEW"
        /\ 4 <= result.risk_score
        /\ result.risk_score < cfg.score_to_decision.reject_at
        /\ HasRule(frame, "high_amount")

\* C8: frequency buffer bound.  The frequency_buffer step changes the call's
\* locals only when user_reputation is recurrent or trusted,
\* customer_txn_30d >= 3 and the score before the step is > 0; it then takes
\* exactly 1 off the score and appends "frequency_buffer(-1)", leaving a score
\* >= 0; the reason is recorded at most once; a score <= 0 before the step is
\* left as it is, and the score after the step is the risk_score returned.
FrequencyBufferBound ==
    [][ /\ pc = "frequency" =>
               LET fired == frame' # frame
               IN  /\ fired =>
                         /\ Lower(Str(Get(row, "user_reputation", "new")))
                                \in {"recurrent", "trusted"}
                         /\ Get(row, "customer_txn_30d", 0) >= 3
                         /\ frame.score > 0
                         /\ frame'.score = frame.score - 1
                         /\ frame'.score >= 0
                         /\ frame'.reasons =
                                Append(frame.reasons,
                                       [rule |-> "frequency_buffer",
                                        text |-> "frequency_buffer(-1)"])
                   /\ frame.score <= 0 => ~fired
                   /\ CountRule(frame', "frequency_buffer") <= 1
                   /\ CountRule(frame', "frequency_buffer") = 1 <=> fired
        /\ pc = "decision" => result'.risk_score = frame.score
      ]_vars

\* the buffer fired on a score of 1 and the call is about to return 0
BufferFiredToZero ==
    /\ pc = "decision"
    /\ HasRule(frame, "frequency_buffer")
    /\ frame.score = 0
    /\ Get(row, "customer_txn_30d", 0) >= 3

\* the threshold the specification resolves for a product type
ThresholdFor(r) ==
    LET ptype == Lower(Get(r, "product_type", "_default"))
    IN  IF ptype \in {"digital", "physical", "subscription"}
        THEN DEFAULT_CONFIG.amount_thresholds[ptype]
        ELSE DEFAULT_CONFIG.amount_thresholds["_default"]

\* C9: high-amount sub-rule.  In every result the high_amount reason is
\* there exactly when the rule ran and amount_mxn >= the threshold of the
\* lower-cased product type (_default for an unrecognized one); the
\* new_user_high_amount reason is there exactly when the high_amount reason
\* is and user_reputation lower-cased is "new"; it never stands without the
\* high_amount reason and directly follows it.
HighAmountSubRule ==
    pc = "done" =>
        LET new_user == Lower(Str(Get(row, "user_reputation", "new"))) = "new"
            ha == HasRule(frame, "high_amount")
            nu == HasRule(frame, "new_user_high_amount")
        IN  /\ result.reasons = Join(Texts(frame.reasons))
            /\ ~TriggersHardBlock(row) =>
                   (ha <=> Get(row, "amount_mxn", 0) >= ThresholdFor(row))
            /\ TriggersHardBlock(row) => ~ha
            /\ nu <=> (ha /\ new_user)
            /\ nu => ha
            /\ \A i \in 1..Len(frame.reasons) :
                   frame.reasons[i].rule = "new_user_high_amount" =>
                       /\ i > 1
                       /\ frame.reasons[i - 1].rule = "high_amount"
            /\ CountRule(frame, "new_user_high_amount") <= 1

\* a result carries both reasons for a reputation and a product type written
\* with capitals
NewUserHighAmountReached ==
    /\ pc = "done"
    /\ HasRule(frame, "new_user_high_amount")
    /\ Get(row, "user_reputation", "new") = "NEW"
    /\ Get(row, "product_type", "_default") = "Subscription"
    /\ Len(frame.reasons) > 2

\* C4: determinism under concurrency.  With any interleaving of the calls,
\* no step writes cfg, a step of one call leaves the locals and the result of
\* every call that did not move untouched, every call that has returned got
\* exactly the triple its row yields when scored alone, and two calls on the
\* same row got identical triples.
DeterminismUnderConcurrency ==
    [][ /\ cfg' = cfg
        /\ \A q \in Procs :
               calls'[q] = calls[q] =>
                   /\ frames'[q] = frames[q]
                   /\ returned'[q] = returned[q]
        /\ \A p \in Procs :
               calls'[p].pc = "done" =>
                   returned'[p] = assess_row(calls'[p].row, cfg')
        /\ \A p, q \in Procs :
               (/\ calls'[p].pc = "done"
                /\ calls'[q].pc = "done"
                /\ calls'[p].row = calls'[q].row) => returned'[p] = returned'[q]
      ]_vars

\* one call has returned a scored result while another, on a different row,
\* is in the middle of its rules with points already on its score
ReturnedWhileOtherRuns ==
    \E p, q \in Procs :
        /\ p # q
        /\ calls[p].row # calls[q].row
        /\ calls[p].pc = "done"
        /\ returned[p].risk_score \notin {0, 100}
        /\ calls[q].pc = "frequency"
        /\ frames[q].score > 0

Triple(r) ==
    [decision |-> r.decision, risk_score |-> r.risk_score, reasons |-> r.reasons]

\* C5: row-order preservation.  The table run writes has as many rows as the
\* input table, in the input order: output row i has the columns of input
\* row i unchanged plus decision, risk_score and reasons, and these three are
\* what assess_row gives for input row i under the one shared configuration.
RowOrderPreserved ==
    rpc = "done" =>
        /\ Len(out) = Len(df)
        /\ \A i \in 1..Len(df) :
               /\ DOMAIN out[i] =
                      DOMAIN df[i] \cup {"decision", "risk_score", "reasons"}
               /\ \A col \in DOMAIN df[i] : out[i][col] = df[i][col]
               /\ Triple(out[i]) = assess_row(df[i], cfg)

\* a table of several rows was written whose rows got different decisions
MixedTableWritten ==
    /\ rpc = "done"
    /\ Len(out) >= 2
    /\ out[1].decision # out[2].decision
    /\ out[1].risk_score > out[Len(out)].risk_score

\* the domain the data model of the specification gives each enum field
SpecDomain(f) ==
    CASE f = "product_type" -> {"digital", "physical", "subscription"}
      [] f = "user_reputation" -> {"trusted", "recurrent", "new", "high_risk"}
      [] f \in {"device_fingerprint_risk", "ip_risk"} -> {"low", "medium", "high"}
      [] f = "email_risk" -> {"low", "medium", "high", "new_domain"}

\* C6: boundary validation.  A body in which an enum field holds a value
\* outside its domain of the data model is answered with a 4xx and the
\* engine is never invoked for it.
BoundaryValidation ==
    (/\ response # NoResponse
     /\ \E f \in EnumFields \cap DOMAIN body : body[f] \notin SpecDomain(f)) =>
        /\ response.status \in 400..499
        /\ engine_in = <<>>

\* a record with each missing field at the default of the data model
FillDefaults(r) ==
    [f \in ScoredFields |->
        IF f \in DOMAIN r THEN r[f]
        ELSE CASE f = "amount_mxn" -> 0
               [] f = "customer_txn_30d" -> 0
               [] f = "chargeback_count" -> 0
               [] f = "hour" -> 12
               [] f = "product_type" -> "digital"
               [] f = "latency_ms" -> 0
               [] f = "user_reputation" -> "new"
               [] f \in {"device_fingerprint_risk", "ip_risk", "email_risk"} -> "low"
               [] f \in {"bin_country", "ip_country"} -> "MX"]

\* C7: defaulting of absent fields.  On the batch path a row of a table that
\* lacks some columns is scored as the row with each missing field at its
\* data-model default.
AbsentFieldsDefaulted ==
    rpc = "done" =>
        \A i \in 1..Len(df) :
            Triple(out[i]) = assess_row(FillDefaults(df[i]), cfg)

\* C10: geo mismatch.  The geo_mismatch weight and reason are given exactly
\* when bin_country and ip_country, as the engine receives them, are both
\* neither null nor empty and differ after upper-casing.
GeoMismatchExactly ==
    (response.status = 200 /\ ~TriggersHardBlock(engine_in[1])) =>
        LET r == engine_in[1]
            present(v) == v # None /\ v # ""
            differ == /\ present(r.bin_country)
                      /\ present(r.ip_country)
                      /\ Upper(r.bin_country) # Upper(r.ip_country)
            without == [r EXCEPT !.bin_country = "", !.ip_country = ""]
        IN  /\ HasRule(FinalFrame(r, cfg), "geo_mismatch") <=> differ
            /\ ~differ => response.risk_score = assess_row(without, cfg).risk_score

====
